---- MODULE Spec2Model ----
(***************************************************************************)
(* Flip 7 rules engine (src/flip7_engine.py) as a state machine.           *)
(*                                                                         *)
(* A GameState object is a record; every method of GameState is an         *)
(* operator from a record to the record after the call, so that the same   *)
(* operators serve the game in play (variable gs) and the clones the       *)
(* search agent works on.                                                  *)
(***************************************************************************)
EXTENDS Integers, Sequences, FiniteSets, TLC

(***************************************************************************)
(* Program constants.                                                      *)
(***************************************************************************)
NumPlayers == 2
WinScore == 200
Flip7Count == 7
Flip7Bonus == 15
ForcedDraws == 3

(***************************************************************************)
(* Bounds of the model.                                                    *)
(***************************************************************************)
DeckLen == 5

\* Python's None for an Optional[int] field (winner, Card.value).
None == -1

(***************************************************************************)
(* Card: kind in number / modifier / mult / action, value, name.           *)
(***************************************************************************)
Card(kind, value, name) == [kind |-> kind, value |-> value, name |-> name]

NumberCard(v) == Card("number", v, "None")

ModifierCard(m) == Card("modifier", m, "None")

MultCard == Card("mult", None, "None")

ActionCard(n) == Card("action", None, n)

(***************************************************************************)
(* Flip7Deck.__init__: how many copies of a card the full deck holds.      *)
(***************************************************************************)
Copies(c) ==
    CASE c.kind = "number" -> IF c.value \in {0, 1} THEN 1 ELSE c.value
      [] c.kind = "modifier" -> 1
      [] c.kind = "mult" -> 1
      [] c.kind = "action" /\ c.name = "Freeze" -> 2
      [] c.kind = "action" /\ c.name = "FlipThree" -> 2
      [] c.kind = "action" /\ c.name = "SecondChance" -> 1
      [] OTHER -> 0

RECURSIVE SumSeq(_)
SumSeq(s) == IF s = <<>> THEN 0 ELSE Head(s) + SumSeq(Tail(s))

Range(s) == {s[i] : i \in 1..Len(s)}

Count(s, x) == Cardinality({i \in 1..Len(s) : s[i] = x})

(***************************************************************************)
(* Flip7Deck.remaining and Flip7Deck.draw on the list of cards.            *)
(***************************************************************************)
remaining(cards) == Len(cards)

\* variant of draw that pops the last card instead of the first
draw_last(cards) == [card |-> cards[Len(cards)], cards |-> SubSeq(cards, 1, Len(cards) - 1)]

\* cards.pop(0); the caller has checked that the list is not empty
draw(cards) == [card |-> Head(cards), cards |-> Tail(cards)]

(***************************************************************************)
(* GameState.                                                              *)
(***************************************************************************)
NewGameState(totals, cards) ==
    [num_players |-> NumPlayers,
     player_totals |-> totals,
     current_player |-> 0,
     deck |-> cards,
     current_numbers |-> <<>>,
     flat_modifiers |-> 0,
     x2 |-> FALSE,
     second_chance_count |-> 0,
     round_over |-> FALSE,
     winner |-> None]

\* variant of legal_actions that leaves out the winner test
legal_actions_no_winner_test(s) ==
    IF s.round_over THEN <<>> ELSE <<"hit", "stay">>

legal_actions(s) ==
    IF s.round_over \/ s.winner # None THEN <<>> ELSE <<"hit", "stay">>

game_over(s) == s.winner # None

sum_current_score(s) ==
    LET s1 == SumSeq(s.current_numbers)
        s2 == IF s.x2 THEN s1 * 2 ELSE s1
        s3 == s2 + s.flat_modifiers
    IN  IF Cardinality(Range(s.current_numbers)) >= Flip7Count THEN s3 + Flip7Bonus ELSE s3

\* the four assignments that empty the current line, and round_over = True
end_line(s) ==
    [s EXCEPT !.current_numbers = <<>>,
              !.flat_modifiers = 0,
              !.x2 = FALSE,
              !.second_chance_count = 0,
              !.round_over = TRUE]

set_winner(s) ==
    IF s.player_totals[s.current_player] >= WinScore
    THEN [s EXCEPT !.winner = s.current_player]
    ELSE s

\* variant of bank_current that never sets the winner
bank_current_no_winner(s) ==
    LET score == IF s.current_numbers # <<>> THEN sum_current_score(s) ELSE 0
    IN  end_line([s EXCEPT !.player_totals[s.current_player] = @ + score])

bank_current(s) ==
    LET score == IF s.current_numbers # <<>> THEN sum_current_score(s) ELSE 0
    IN  set_winner(end_line([s EXCEPT !.player_totals[s.current_player] = @ + score]))

(***************************************************************************)
(* The outcome dict of a call.  A key the code leaves out reads as falsy   *)
(* through dict.get: round_end FALSE, banked None, draws empty.            *)
(***************************************************************************)
Outcome(result, card, round_end, banked, draws) ==
    [result |-> result, card |-> card, round_end |-> round_end,
     banked |-> banked, draws |-> draws]

NoCard == Card("None", None, "None")

NoOutcome == Outcome("None", NoCard, FALSE, None, <<>>)

\* one processed card: the state when its processing starts and ends
LogEntry(card, result, before, after) ==
    [card |-> card, result |-> result, before |-> before, after |-> after]

Ret(st, res, log) == [st |-> st, res |-> res, log |-> log]

(***************************************************************************)
(* GameState._process_draw, branch by branch.                              *)
(***************************************************************************)
\* variant of duplicate_discarded that does not consume the token
duplicate_discarded_keeps_token(s, card) ==
    Ret(s, Outcome("duplicate_discarded", card, FALSE, None, <<>>),
        <<LogEntry(card, "duplicate_discarded", s, s)>>)

duplicate_discarded(s, card) ==
    LET st == [s EXCEPT !.second_chance_count = @ - 1]
    IN  Ret(st, Outcome("duplicate_discarded", card, FALSE, None, <<>>),
            <<LogEntry(card, "duplicate_discarded", s, st)>>)

\* variant of bust that leaves the flat modifier in the line
bust_keeps_modifiers(s, card) ==
    LET st == [s EXCEPT !.current_numbers = <<>>, !.x2 = FALSE,
                        !.second_chance_count = 0, !.round_over = TRUE]
    IN  Ret(st, Outcome("bust", card, TRUE, None, <<>>),
            <<LogEntry(card, "bust", s, st)>>)

bust(s, card) ==
    LET st == end_line(s)
    IN  Ret(st, Outcome("bust", card, TRUE, None, <<>>),
            <<LogEntry(card, "bust", s, st)>>)

\* variant of number_added that adds the flip7 bonus on top of the score
number_added_bonus_twice(s, card) ==
    LET s1 == [s EXCEPT !.current_numbers = Append(@, card.value)]
    IN  IF Cardinality(Range(s1.current_numbers)) >= Flip7Count
        THEN LET score == sum_current_score(s1) + Flip7Bonus
                 st == set_winner(end_line(
                           [s1 EXCEPT !.player_totals[s1.current_player] = @ + score]))
             IN  Ret(st, Outcome("flip7", card, TRUE, score, <<>>),
                     <<LogEntry(card, "flip7", s, st)>>)
        ELSE Ret(s1, Outcome("number_added", card, FALSE, None, <<>>),
                 <<LogEntry(card, "number_added", s, s1)>>)

number_added(s, card) ==
    LET s1 == [s EXCEPT !.current_numbers = Append(@, card.value)]
    IN  IF Cardinality(Range(s1.current_numbers)) >= Flip7Count
        THEN LET score == sum_current_score(s1)
                 st == set_winner(end_line(
                           [s1 EXCEPT !.player_totals[s1.current_player] = @ + score]))
             IN  Ret(st, Outcome("flip7", card, TRUE, score, <<>>),
                     <<LogEntry(card, "flip7", s, st)>>)
        ELSE Ret(s1, Outcome("number_added", card, FALSE, None, <<>>),
                 <<LogEntry(card, "number_added", s, s1)>>)

modifier_added(s, card) ==
    LET st == [s EXCEPT !.flat_modifiers = @ + card.value]
    IN  Ret(st, Outcome("modifier_added", card, FALSE, None, <<>>),
            <<LogEntry(card, "modifier_added", s, st)>>)

x2_added(s, card) ==
    LET st == [s EXCEPT !.x2 = TRUE]
    IN  Ret(st, Outcome("x2_added", card, FALSE, None, <<>>),
            <<LogEntry(card, "x2_added", s, st)>>)

freeze(s, card) ==
    LET st == [bank_current(s) EXCEPT !.round_over = TRUE]
    IN  Ret(st, Outcome("freeze", card, TRUE, None, <<>>),
            <<LogEntry(card, "freeze", s, st)>>)

secondchance_added(s, card) ==
    LET st == [s EXCEPT !.second_chance_count = @ + 1]
    IN  Ret(st, Outcome("secondchance_added", card, FALSE, None, <<>>),
            <<LogEntry(card, "secondchance_added", s, st)>>)

unknown_card(s, card) ==
    Ret(s, Outcome("unknown_card", card, FALSE, None, <<>>),
        <<LogEntry(card, "unknown_card", s, s)>>)

RECURSIVE process_draw(_, _), flip_three_loop(_, _, _, _)

\* variant of flip_three_loop that goes on after a forced draw ended the round
RECURSIVE flip_three_loop_no_stop(_, _, _, _)
flip_three_loop_no_stop(s, n, draws, log) ==
    IF n = 0 \/ remaining(s.deck) = 0
    THEN [st |-> s, round_end |-> s.round_over, draws |-> draws, log |-> log]
    ELSE LET d == draw(s.deck)
             r == process_draw([s EXCEPT !.deck = d.cards], d.card)
         IN  flip_three_loop_no_stop(r.st, n - 1, Append(draws, d.card), log \o r.log)

\* for _ in range(n): the forced draws of one FlipThree card, n iterations left
flip_three_loop(s, n, draws, log) ==
    IF n = 0 \/ remaining(s.deck) = 0
    THEN [st |-> s, round_end |-> FALSE, draws |-> draws, log |-> log]
    ELSE LET d == draw(s.deck)
             r == process_draw([s EXCEPT !.deck = d.cards], d.card)
         IN  IF r.res.round_end
             THEN [st |-> r.st, round_end |-> TRUE,
                   draws |-> Append(draws, d.card), log |-> log \o r.log]
             ELSE flip_three_loop(r.st, n - 1, Append(draws, d.card), log \o r.log)

\* variant of flip_three with one forced draw too many
flip_three_four_draws(s, card) ==
    LET l == flip_three_loop(s, ForcedDraws + 1, <<>>, <<>>)
        result == IF l.round_end THEN "flipthree_resolved" ELSE "flipthree_done"
    IN  Ret(l.st, Outcome(result, card, l.round_end, None, l.draws),
            <<LogEntry(card, result, s, l.st)>> \o l.log)

flip_three(s, card) ==
    LET l == flip_three_loop(s, ForcedDraws, <<>>, <<>>)
        result == IF l.round_end THEN "flipthree_resolved" ELSE "flipthree_done"
    IN  Ret(l.st, Outcome(result, card, l.round_end, None, l.draws),
            <<LogEntry(card, result, s, l.st)>> \o l.log)

process_draw(s, card) ==
    CASE card.kind = "number" ->
            IF card.value \in Range(s.current_numbers)
            THEN IF s.second_chance_count > 0
                 THEN duplicate_discarded(s, card)
                 ELSE bust(s, card)
            ELSE number_added(s, card)
      [] card.kind = "modifier" -> modifier_added(s, card)
      [] card.kind = "mult" -> x2_added(s, card)
      [] card.kind = "action" /\ card.name = "Freeze" -> freeze(s, card)
      [] card.kind = "action" /\ card.name = "FlipThree" -> flip_three(s, card)
      [] card.kind = "action" /\ card.name = "SecondChance" -> secondchance_added(s, card)
      [] OTHER -> unknown_card(s, card)

(***************************************************************************)
(* GameState.apply_action.  err is the exception the call raises, if any:  *)
(* ValueError for an illegal action, IndexError from Flip7Deck.draw.       *)
(***************************************************************************)
Call(st, err, res, log) == [st |-> st, err |-> err, res |-> res, log |-> log]

\* variant of advance_player that leaves round_over as the round's end set it
advance_player_keeps_round_over(s) ==
    [s EXCEPT !.current_player = (s.current_player + 1) % s.num_players]

advance_player(s) ==
    [s EXCEPT !.current_player = (s.current_player + 1) % s.num_players,
              !.round_over = FALSE]

apply_stay(s) ==
    Call(advance_player(bank_current(s)),
         "None", Outcome("stayed", NoCard, FALSE, 1, <<>>), <<>>)

\* variant of apply_hit that passes the turn after every card
apply_hit_always_advances(s) ==
    IF remaining(s.deck) = 0
    THEN Call(s, "IndexError", NoOutcome, <<>>)
    ELSE LET d == draw(s.deck)
             r == process_draw([s EXCEPT !.deck = d.cards], d.card)
         IN  Call(advance_player(r.st), "None", r.res, r.log)

apply_hit(s) ==
    IF remaining(s.deck) = 0
    THEN Call(s, "IndexError", NoOutcome, <<>>)
    ELSE LET d == draw(s.deck)
             r == process_draw([s EXCEPT !.deck = d.cards], d.card)
         IN  Call(IF r.res.round_end THEN advance_player(r.st) ELSE r.st,
                  "None", r.res, r.log)

InSeq(x, s) == \E i \in 1..Len(s) : s[i] = x

apply_action(s, action) ==
    IF ~InSeq(action, legal_actions(s))
    THEN Call(s, "ValueError", NoOutcome, <<>>)
    ELSE LET s0 == [s EXCEPT !.round_over = FALSE]
         IN  IF action = "stay" THEN apply_stay(s0) ELSE apply_hit(s0)

(***************************************************************************)
(* The game in play.  gs is the GameState the driver holds; last records   *)
(* the most recent apply_action call: its argument, the state it was made  *)
(* in, what it raised or returned, and the cards it processed.             *)
(***************************************************************************)
VARIABLES gs, last

(***************************************************************************)
(* The search agent (src/mcts_agent.py).  A GameState is held by           *)
(* reference: reference 0 is the caller's object gs, reference r >= 1 is   *)
(* heap[r], an object made by clone().  nodes is the search tree, node 1   *)
(* its root; frame holds the locals of MCTSAgent.run and of the rollout    *)
(* it is in; root_state0 is the value of the caller's state when run was   *)
(* called.                                                                 *)
(***************************************************************************)
VARIABLES heap, nodes, frame, root_state0

vars == <<gs, last, heap, nodes, frame, root_state0>>

mcts_vars == <<heap, nodes, frame, root_state0>>

\* what a rollout has seen of the round that was in progress when it started:
\* whether that round has ended, whether an action was applied after its end,
\* the starting player's total at its end (so far, while it goes on) and whether
\* a flip7 occurred in it
RoundHistory(total) ==
    [ended |-> FALSE, acted_after_end |-> FALSE, total |-> total, flip7 |-> FALSE]

\* the locals of MCTSAgent.run and of the rollout it is in (res is what the
\* rollout's last apply_action returned), the history of the rollout's first
\* round, and the rolled-out node and the reward of each completed iteration
Frame(pc, sims) ==
    [pc |-> pc, sims |-> sims, i |-> 0, node |-> 0, mark |-> 0, st |-> 0,
     player |-> 0, start_score |-> 0, flip7_hit |-> FALSE, res |-> NoOutcome,
     best_act |-> "None", round |-> RoundHistory(0), iterations |-> <<>>]

\* root_state0 while run has not been called
NoState == NewGameState(<<>>, <<>>)

LastCall(action, pre, c) ==
    [action |-> action, pre |-> pre, err |-> c.err, res |-> c.res, log |-> c.log]

(***************************************************************************)
(* Positions the model starts from: a game in progress with DeckLen cards  *)
(* left in the deck.  StartPositions are a new game, and a game late on    *)
(* in which player 0 has hit six number cards.  The cards left are drawn   *)
(* from CardAlphabet in every order, and never exceed the copies the full  *)
(* deck holds of a card once the cards of the line are taken out.          *)
(***************************************************************************)
CardAlphabet ==
    {NumberCard(8), ModifierCard(4), MultCard,
     ActionCard("Freeze"), ActionCard("FlipThree"), ActionCard("SecondChance")}

StartPositions ==
    {[player_totals |-> <<0, 0>>, current_numbers |-> <<>>],
     [player_totals |-> <<180, 190>>, current_numbers |-> <<0, 1, 2, 3, 4, 5>>]}

Totals(t) == [p \in 0..(NumPlayers - 1) |-> t[p + 1]]

Decks(line) ==
    {d \in [1..DeckLen -> CardAlphabet] :
        \A c \in CardAlphabet :
            Count(d, c) + (IF c.kind = "number" THEN Count(line, c.value) ELSE 0) <= Copies(c)}

Init ==
    /\ \E p \in StartPositions :
         \E d \in Decks(p.current_numbers) :
            gs = [NewGameState(Totals(p.player_totals), d)
                     EXCEPT !.current_numbers = p.current_numbers]
    /\ last = LastCall("None", gs, Call(gs, "None", NoOutcome, <<>>))
    /\ heap = <<>>
    /\ nodes = <<>>
    /\ frame = Frame("idle", 0)
    /\ root_state0 = NoState

Hit ==
    LET c == apply_action(gs, "hit")
    IN  /\ gs' = c.st
        /\ last' = LastCall("hit", gs, c)
        /\ UNCHANGED mcts_vars

Stay ==
    LET c == apply_action(gs, "stay")
    IN  /\ gs' = c.st
        /\ last' = LastCall("stay", gs, c)
        /\ UNCHANGED mcts_vars

\* any argument that is neither 'hit' nor 'stay'
Other ==
    LET c == apply_action(gs, "fold")
    IN  /\ gs' = c.st
        /\ last' = LastCall("fold", gs, c)
        /\ UNCHANGED mcts_vars

Next == Hit \/ Stay \/ Other

Spec == Init /\ [][Next]_vars

(***************************************************************************)
(* play_game (src/experiment_harness.py): while the game is not over, the  *)
(* current player's agent picks an action among legal_actions() and the    *)
(* driver applies it.  An exception of apply_action ends the loop.         *)
(***************************************************************************)
\* while not st.game_over(), and no call has raised
Playing == last.err = "None" /\ ~game_over(gs)

\* the agent returns 'hit'
PlayHit ==
    /\ Playing
    /\ InSeq("hit", legal_actions(gs))
    /\ LET c == apply_action(gs, "hit")
       IN  gs' = c.st /\ last' = LastCall("hit", gs, c)
    /\ UNCHANGED mcts_vars

\* the agent returns 'stay'
PlayStay ==
    /\ Playing
    /\ InSeq("stay", legal_actions(gs))
    /\ LET c == apply_action(gs, "stay")
       IN  gs' = c.st /\ last' = LastCall("stay", gs, c)
    /\ UNCHANGED mcts_vars

NextGame == PlayHit \/ PlayStay

SpecGame == Init /\ [][NextGame]_vars

(***************************************************************************)
(* MCTSAgent.                                                              *)
(***************************************************************************)
Flip7Weight == 50

\* bound: the largest simulation budget run is called with
MaxSims == 2

\* references to GameState objects
Memory(g, h) == [caller |-> g, heap |-> h]

Load(m, r) == IF r = 0 THEN m.caller ELSE m.heap[r]

Store(m, r, v) ==
    IF r = 0 THEN [m EXCEPT !.caller = v] ELSE [m EXCEPT !.heap[r] = v]

\* variant of clone that hands back the object itself
clone_same_object(m, r) == [mem |-> m, ref |-> r]

\* copy.deepcopy(self): a new object that shares nothing with the original
clone(m, r) ==
    [mem |-> [m EXCEPT !.heap = Append(@, Load(m, r))], ref |-> Len(m.heap) + 1]

\* what random.shuffle can leave in a list
Shuffles(cards) ==
    {q \in [1..Len(cards) -> Range(cards)] :
        \A c \in Range(cards) : Count(q, c) = Count(cards, c)}

\* random.shuffle(state.deck.cards), in place, with outcome q
shuffle(m, r, q) == Store(m, r, [Load(m, r) EXCEPT !.deck = q])

Node(state, parent, action) ==
    [state |-> state, parent |-> parent, action |-> action,
     children |-> <<>>, visits |-> 0, value |-> 0]

\* scores are held in units of 1/Scale
Scale == 100000

Infinity == 2000000000

\* c_param * sqrt(log(parent visits) / visits) for c_param = 1.4, in units of 1/Scale
Ucb1Explore ==
    << <<0, 0, 0, 0, 0, 0, 0, 0>>,
       <<116558, 82419, 67295, 58279, 52126, 47584, 44055, 41209>>,
       <<146741, 103761, 84721, 73370, 65624, 59907, 55463, 51881>>,
       <<164837, 116558, 95169, 82419, 73718, 67295, 62303, 58279>>,
       <<177609, 125589, 102543, 88805, 79429, 72509, 67130, 62794>>,
       <<187399, 132511, 108195, 93700, 83808, 76505, 70830, 66256>>,
       <<195294, 138094, 112753, 97647, 87338, 79729, 73814, 69047>>,
       <<201884, 142753, 116558, 100942, 90285, 82419, 76305, 71377>> >>

\* variant of ucb1 that scores a child without visits as 0
ucb1_unvisited_zero(T, n) ==
    IF T[n].visits = 0
    THEN 0
    ELSE (T[n].value * Scale) \div T[n].visits
             + Ucb1Explore[T[T[n].parent].visits][T[n].visits]

ucb1(T, n) ==
    IF T[n].visits = 0
    THEN Infinity
    ELSE (T[n].value * Scale) \div T[n].visits
             + Ucb1Explore[T[T[n].parent].visits][T[n].visits]

\* choices[scores.index(max(scores))]: the first child with the largest score
best_child(T, n) ==
    LET choices == T[n].children
        best == CHOOSE k \in 1..Len(choices) :
                    /\ \A j \in 1..Len(choices) : ucb1(T, choices[j]) <= ucb1(T, choices[k])
                    /\ \A j \in 1..(k - 1) : ucb1(T, choices[j]) < ucb1(T, choices[k])
    IN  choices[best]

\* node = root; while node.children: node = self.best_child(node)
RECURSIVE select(_, _)
select(T, n) == IF T[n].children = <<>> THEN n ELSE select(T, best_child(T, n))

HasChild(T, n, a) == \E k \in 1..Len(T[n].children) : T[T[n].children[k]].action = a

\* MCTSAgent.expand: one child per legal action, each on its own shuffled clone;
\* qs[k] is what the shuffle leaves for the k-th action
RECURSIVE expand_actions(_, _, _, _, _)
expand_actions(T, m, n, actions, qs) ==
    IF actions = <<>>
    THEN [nodes |-> T, mem |-> m]
    ELSE IF HasChild(T, n, Head(actions))
         THEN expand_actions(T, m, n, Tail(actions), Tail(qs))
         ELSE LET c == clone(m, T[n].state)
                  m1 == shuffle(c.mem, c.ref, Head(qs))
                  T1 == Append([T EXCEPT ![n].children = Append(@, Len(T) + 1)],
                               Node(c.ref, n, Head(actions)))
              IN  expand_actions(T1, m1, n, Tail(actions), Tail(qs))

\* variant of expand that plays the child's action on the child's state
RECURSIVE expand_actions_applies_action(_, _, _, _, _)
expand_actions_applies_action(T, m, n, actions, qs) ==
    IF actions = <<>>
    THEN [nodes |-> T, mem |-> m]
    ELSE IF HasChild(T, n, Head(actions))
         THEN expand_actions_applies_action(T, m, n, Tail(actions), Tail(qs))
         ELSE LET c == clone(m, T[n].state)
                  m1 == shuffle(c.mem, c.ref, Head(qs))
                  m2 == Store(m1, c.ref, apply_action(Load(m1, c.ref), Head(actions)).st)
                  T1 == Append([T EXCEPT ![n].children = Append(@, Len(T) + 1)],
                               Node(c.ref, n, Head(actions)))
              IN  expand_actions_applies_action(T1, m2, n, Tail(actions), Tail(qs))

expand_applies_action(T, m, n, qs) ==
    expand_actions_applies_action(T, m, n, legal_actions(Load(m, T[n].state)), qs)

expand(T, m, n, qs) == expand_actions(T, m, n, legal_actions(Load(m, T[n].state)), qs)

\* variant of backup that adds the reward to the rolled-out node only
RECURSIVE backup_visits(_, _)
backup_visits(T, n) ==
    IF n = 0 THEN T ELSE backup_visits([T EXCEPT ![n].visits = @ + 1], T[n].parent)

backup_reward_at_node_only(T, n, reward) ==
    backup_visits([T EXCEPT ![n].value = @ + reward], n)

\* MCTSAgent.backup: up the parent references, None being 0
RECURSIVE backup(_, _, _)
backup(T, n, reward) ==
    IF n = 0
    THEN T
    ELSE backup([T EXCEPT ![n].visits = @ + 1, ![n].value = @ + reward],
                T[n].parent, reward)

\* variant of best_action that lets a later child take over on an equal mean
RECURSIVE best_action_later_on_tie(_, _, _, _, _)
best_action_later_on_tie(T, children, best_act, best_num, best_den) ==
    IF children = <<>>
    THEN best_act
    ELSE LET c == T[Head(children)]
         IN  IF c.visits > 0
                /\ (best_den = 0 \/ c.value * best_den >= best_num * c.visits)
             THEN best_action_later_on_tie(T, Tail(children), c.action, c.value, c.visits)
             ELSE best_action_later_on_tie(T, Tail(children), best_act, best_num, best_den)

\* the last loop of run: the action of the first child with the strictly largest
\* mean value, a child without visits counting as minus infinity; None otherwise
RECURSIVE best_action(_, _, _, _, _)
best_action(T, children, best_act, best_num, best_den) ==
    \* best score is best_num / best_den; best_den = 0 stands for minus infinity
    IF children = <<>>
    THEN best_act
    ELSE LET c == T[Head(children)]
         IN  IF c.visits > 0
                /\ (best_den = 0 \/ c.value * best_den > best_num * c.visits)
             THEN best_action(T, Tail(children), c.action, c.value, c.visits)
             ELSE best_action(T, Tail(children), best_act, best_num, best_den)

Mem == Memory(gs, heap)

SetMem(m) == gs' = m.caller /\ heap' = m.heap

\* root = Node(self.determinize(root_state)): clone the caller's state, shuffle the clone
Determinize ==
    /\ frame.pc = "determinize"
    /\ LET c == clone(Mem, 0)
       IN  \E q \in Shuffles(Load(c.mem, c.ref).deck) :
               /\ SetMem(shuffle(c.mem, c.ref, q))
               /\ nodes' = <<Node(c.ref, 0, "None")>>
    /\ frame' = [frame EXCEPT !.pc = "expand_root"]
    /\ UNCHANGED <<last, root_state0>>

\* self.expand(root)
ExpandRoot ==
    /\ frame.pc = "expand_root"
    /\ LET P == Shuffles(Load(Mem, nodes[1].state).deck)
       IN  \E q1 \in P, q2 \in P :
               LET e == expand(nodes, Mem, 1, <<q1, q2>>)
               IN  SetMem(e.mem) /\ nodes' = e.nodes
    /\ frame' = [frame EXCEPT !.pc = "loop"]
    /\ UNCHANGED <<last, root_state0>>

\* for i in range(sims): selection by UCB1 down to a leaf
Select ==
    /\ frame.pc = "loop"
    /\ frame.i < frame.sims
    /\ frame' = [frame EXCEPT !.pc = "expand", !.node = select(nodes, 1)]
    /\ UNCHANGED <<gs, last, heap, nodes, root_state0>>

\* if node.visits > 0: expand the leaf and step into a child chosen at random
Expand ==
    /\ frame.pc = "expand"
    /\ IF nodes[frame.node].visits > 0
       THEN LET P == Shuffles(Load(Mem, nodes[frame.node].state).deck)
            IN  \E q1 \in P, q2 \in P :
                    LET e == expand(nodes, Mem, frame.node, <<q1, q2>>)
                        kids == e.nodes[frame.node].children
                    IN  /\ SetMem(e.mem)
                        /\ nodes' = e.nodes
                        /\ IF kids # <<>>
                           THEN \E k \in 1..Len(kids) :
                                    frame' = [frame EXCEPT !.pc = "simulate", !.node = kids[k]]
                           ELSE frame' = [frame EXCEPT !.pc = "simulate"]
       ELSE /\ frame' = [frame EXCEPT !.pc = "simulate"]
            /\ UNCHANGED <<gs, heap, nodes>>
    /\ UNCHANGED <<last, root_state0>>

\* det_state = node.state.clone(), shuffled; default_policy clones it again
Simulate ==
    /\ frame.pc = "simulate"
    /\ LET d == clone(Mem, nodes[frame.node].state)
       IN  \E q \in Shuffles(Load(d.mem, d.ref).deck) :
               LET c == clone(shuffle(d.mem, d.ref, q), d.ref)
                   st == Load(c.mem, c.ref)
               IN  /\ SetMem(c.mem)
                   /\ frame' = [frame EXCEPT !.pc = "rollout",
                                             !.mark = Len(heap),
                                             !.st = c.ref,
                                             !.player = st.current_player,
                                             !.start_score = st.player_totals[st.current_player],
                                             !.flip7_hit = FALSE,
                                             !.round = RoundHistory(
                                                 st.player_totals[st.current_player])]
    /\ UNCHANGED <<last, nodes, root_state0>>

\* apply_action passed the turn to the next player: a stay, or a hit that ended
\* the round
turn_passed(c) == c.err = "None" /\ (c.res.result = "stayed" \/ c.res.round_end)

\* the history of the rollout's first round after one more call of apply_action
round_history(h, player, c) ==
    IF h.ended
    THEN [h EXCEPT !.acted_after_end = TRUE]
    ELSE [h EXCEPT !.ended = turn_passed(c),
                   !.total = c.st.player_totals[player],
                   !.flip7 = @ \/ \E i \in 1..Len(c.log) : c.log[i].result = "flip7"]

\* variant of RolloutOver that does not look at the deck
RolloutOver_ignores_deck(st) ==
    game_over(st) \/ legal_actions(st) = <<>>

RolloutOver(st) ==
    game_over(st) \/ remaining(st.deck) = 0 \/ legal_actions(st) = <<>>

\* one pass of the rollout loop: a random legal action applied to st
RolloutStep ==
    /\ frame.pc = "rollout"
    /\ LET st == Load(Mem, frame.st)
       IN  /\ ~RolloutOver(st)
           /\ \E k \in 1..Len(legal_actions(st)) :
                  LET c == apply_action(st, legal_actions(st)[k])
                  IN  /\ SetMem(Store(Mem, frame.st, c.st))
                      /\ frame' = [frame EXCEPT
                             !.flip7_hit = @ \/ c.res.result = "flip7",
                             !.res = c.res,
                             !.round = round_history(@, frame.player, c),
                             !.pc = IF c.err # "None" THEN "raised"
                                    ELSE IF c.res.round_end THEN "backup"
                                    ELSE "rollout"]
    /\ UNCHANGED <<last, nodes, root_state0>>

\* the rollout loop's breaks on game over, empty deck or no legal action
RolloutStop ==
    /\ frame.pc = "rollout"
    /\ RolloutOver(Load(Mem, frame.st))
    /\ frame' = [frame EXCEPT !.pc = "backup"]
    /\ UNCHANGED <<gs, last, heap, nodes, root_state0>>

\* reward = end_score - start_score, plus flip7_weight if flip7_hit
rollout_reward(st, f) ==
    st.player_totals[f.player] - f.start_score
        + (IF f.flip7_hit THEN Flip7Weight ELSE 0)

\* the reward of the rollout, backed up from node to the root; the objects of
\* the iteration (det_state, st) are dropped
Backup ==
    /\ frame.pc = "backup"
    /\ nodes' = backup(nodes, frame.node, rollout_reward(Load(Mem, frame.st), frame))
    /\ heap' = SubSeq(heap, 1, frame.mark)
    /\ frame' = [frame EXCEPT !.pc = "loop", !.i = @ + 1, !.node = 0, !.mark = 0,
                              !.st = 0, !.player = 0, !.start_score = 0,
                              !.flip7_hit = FALSE, !.res = NoOutcome,
                              !.round = RoundHistory(0),
                              !.iterations = Append(@,
                                  [node |-> frame.node,
                                   reward |-> rollout_reward(Load(Mem, frame.st), frame)])]
    /\ UNCHANGED <<gs, last, root_state0>>

\* choose best action (highest average value) and return it
Choose ==
    /\ frame.pc = "loop"
    /\ frame.i = frame.sims
    /\ frame' = [frame EXCEPT
           !.pc = "done",
           !.best_act = best_action(nodes, nodes[1].children, "None", 0, 0)]
    /\ UNCHANGED <<gs, last, heap, nodes, root_state0>>

(***************************************************************************)
(* States run is called in: a new game, a line that a card of the deck     *)
(* busts, a line one number short of seven, a game that is over, and a     *)
(* game whose deck is used up.                                             *)
(***************************************************************************)
RunStates ==
    {NewGameState(Totals(<<0, 0>>), <<NumberCard(8), ActionCard("Freeze")>>),
     [NewGameState(Totals(<<0, 0>>), <<NumberCard(8), ActionCard("SecondChance")>>)
         EXCEPT !.current_numbers = <<8>>, !.flat_modifiers = 4],
     [NewGameState(Totals(<<0, 0>>), <<NumberCard(8), NumberCard(8), ActionCard("FlipThree")>>)
         EXCEPT !.current_player = 1],
     [NewGameState(Totals(<<180, 190>>), <<NumberCard(8), ModifierCard(4)>>)
         EXCEPT !.current_numbers = <<0, 1, 2, 3, 4, 5>>],
     [NewGameState(Totals(<<245, 190>>), <<ModifierCard(4), ActionCard("Freeze")>>)
         EXCEPT !.current_player = 1, !.winner = 0],
     [NewGameState(Totals(<<0, 0>>), <<>>) EXCEPT !.current_numbers = <<8>>]}

InitMCTS ==
    /\ gs \in RunStates
    /\ last = LastCall("None", gs, Call(gs, "None", NoOutcome, <<>>))
    /\ heap = <<>>
    /\ nodes = <<>>
    /\ \E sims \in 0..MaxSims : frame = Frame("determinize", sims)
    /\ root_state0 = gs

NextMCTS ==
    \/ Determinize
    \/ ExpandRoot
    \/ Select
    \/ Expand
    \/ Simulate
    \/ RolloutStep
    \/ RolloutStop
    \/ Backup
    \/ Choose

SpecMCTS == InitMCTS /\ [][NextMCTS]_vars

(***************************************************************************)
(* Longer searches, on states whose deck has one order only, so that the   *)
(* tree grows below the root's children.                                   *)
(***************************************************************************)
TreeSims == 5

TreeStates ==
    {NewGameState(Totals(<<0, 0>>), <<NumberCard(8), NumberCard(8)>>),
     [NewGameState(Totals(<<0, 0>>), <<ModifierCard(4)>>)
         EXCEPT !.current_numbers = <<8>>]}

InitTree ==
    /\ gs \in TreeStates
    /\ last = LastCall("None", gs, Call(gs, "None", NoOutcome, <<>>))
    /\ heap = <<>>
    /\ nodes = <<>>
    /\ \E sims \in 0..TreeSims : frame = Frame("determinize", sims)
    /\ root_state0 = gs

SpecTree == InitTree /\ [][NextMCTS]_vars

(***************************************************************************)
(* Searches on a state whose deck has two orders, long enough for one      *)
(* expansion below the root's children: every shuffle of determinize,      *)
(* expand and the rollout can leave either order.                          *)
(***************************************************************************)
ShuffleSims == 3

ShuffleStates ==
    {[NewGameState(Totals(<<0, 0>>), <<NumberCard(8), ModifierCard(4)>>)
         EXCEPT !.current_numbers = <<8>>]}

InitShuffle ==
    /\ gs \in ShuffleStates
    /\ last = LastCall("None", gs, Call(gs, "None", NoOutcome, <<>>))
    /\ heap = <<>>
    /\ nodes = <<>>
    /\ \E sims \in 0..ShuffleSims : frame = Frame("determinize", sims)
    /\ root_state0 = gs

SpecShuffle == InitShuffle /\ [][NextMCTS]_vars

(***************************************************************************)
(* What the claims speak about.                                            *)
(***************************************************************************)
Players == 0..(NumPlayers - 1)

\* the last call was made and returned (it raised nothing)
Returned == last.action # "None" /\ last.err = "None"

Entries == {last.log[i] : i \in 1..Len(last.log)}

\* the scoring formula as the specification states it
StatedScore(numbers, x2, flat) ==
    (IF x2 THEN 2 * SumSeq(numbers) ELSE SumSeq(numbers)) + flat
        + (IF Cardinality(Range(numbers)) >= 7 THEN 15 ELSE 0)

LineScore(s) == StatedScore(s.current_numbers, s.x2, s.flat_modifiers)

EmptyLine(s) ==
    /\ s.current_numbers = <<>>
    /\ s.flat_modifiers = 0
    /\ s.x2 = FALSE
    /\ s.second_chance_count = 0

IsDuplicate(e) ==
    e.card.kind = "number" /\ e.card.value \in Range(e.before.current_numbers)

\* the state b banks into the state a: only the active player's total moves, by score
BanksInto(b, a, score) ==
    \A p \in Players :
        a.player_totals[p] =
            b.player_totals[p] + (IF p = b.current_player THEN score ELSE 0)

\* C1: a bank by apply_action('stay') or by a drawn Freeze card adds exactly the
\* stated score of the line (numbers, doubled under x2, plus the flat modifier) to
\* the active player's total and leaves every other total alone, whatever the line
\* holds, a line of modifier cards without a number card included.
C1_BankAddsStatedScore ==
    /\ (Returned /\ last.action = "stay") =>
           BanksInto(last.pre, gs, LineScore(last.pre))
    /\ \A e \in Entries :
           e.result = "freeze" =>
               /\ BanksInto(e.before, e.after, LineScore(e.before))
               /\ gs.player_totals = e.after.player_totals

\* C2: winner is set exactly when some total is at least 200; the winner is the
\* player whose bank reached 200 in the call that set it, no other player has 200,
\* and a winner that is set is never changed by a later call.
C2_WinnerIff200 ==
    /\ (gs.winner # None) <=> (\E p \in Players : gs.player_totals[p] >= 200)
    /\ gs.winner # None =>
           \A p \in Players : (gs.player_totals[p] >= 200) <=> (p = gs.winner)
    /\ (gs.winner # None /\ last.pre.winner = None) =>
           /\ gs.winner = last.pre.current_player
           /\ last.pre.player_totals[gs.winner] < 200
    /\ last.pre.winner # None => gs.winner = last.pre.winner

C2_Witness ==
    /\ gs.winner # None
    /\ last.pre.winner = None
    /\ Returned

\* C3: with a winner set legal_actions() is empty and both hit and stay raise the
\* illegal-action error; any call whose action is not legal raises it; and a call
\* that raised it left the whole state (totals, player, line, deck, winner) as it was.
C3_IllegalActionRejected ==
    /\ gs.winner # None => legal_actions(gs) = <<>>
    /\ (last.action \in {"hit", "stay"} /\ last.pre.winner # None) =>
           last.err = "ValueError"
    /\ last.action = "fold" => last.err = "ValueError"
    /\ last.err = "ValueError" => gs = last.pre

C3_Witness ==
    /\ gs.winner # None
    /\ last.action = "hit"
    /\ last.err = "ValueError"
    /\ last.pre.deck # <<>>

\* C4: a number card already in the line, processed with no second-chance token
\* (drawn by the hit itself or forced by a FlipThree), busts: no total changes, the
\* line is emptied, the call reports the round's end and the turn passes on.
C4_DuplicateWithoutTokenBusts ==
    \A e \in Entries :
        (IsDuplicate(e) /\ e.before.second_chance_count = 0) =>
            /\ e.result = "bust"
            /\ gs.player_totals = last.pre.player_totals
            /\ EmptyLine(gs)
            /\ last.res.round_end
            /\ ~gs.round_over
            /\ gs.winner = last.pre.winner
            /\ gs.current_player = (last.pre.current_player + 1) % NumPlayers

C4_Witness ==
    /\ last.res.result = "flipthree_resolved"
    /\ \E e \in Entries :
           /\ e.result = "bust"
           /\ e.before.flat_modifiers > 0

\* C5: a number card already in the line, processed while at least one
\* second-chance token is held, costs exactly one token and changes nothing else;
\* the round goes on, and after a hit that drew it hit and stay are legal for the
\* same player.
C5_DuplicateWithTokenDiscarded ==
    \A e \in Entries :
        (IsDuplicate(e) /\ e.before.second_chance_count >= 1) =>
            /\ e.result = "duplicate_discarded"
            /\ e.after = [e.before EXCEPT
                              !.second_chance_count = e.before.second_chance_count - 1]
            /\ ~e.after.round_over
            /\ e = last.log[1] =>
                   /\ last.res.result = "duplicate_discarded"
                   /\ gs = [last.pre EXCEPT
                                !.second_chance_count = last.pre.second_chance_count - 1,
                                !.deck = Tail(last.pre.deck)]
                   /\ legal_actions(gs) = <<"hit", "stay">>

C5_Witness ==
    /\ last.res.result = "duplicate_discarded"
    /\ last.pre.second_chance_count = 1
    /\ gs.second_chance_count = 0
    /\ gs.current_numbers # <<>>

\* C6: the number card that brings the line to 7 distinct values is a flip7: the
\* active player's total grows by the seven numbers (doubled under x2) plus the
\* flat modifier plus 15, once; the line is emptied and the round ends.  No state
\* between two calls holds 7 or more collected numbers.
C6_Flip7BanksBonusOnce ==
    /\ Len(gs.current_numbers) < 7
    /\ \A e \in Entries :
           (/\ e.card.kind = "number"
            /\ ~IsDuplicate(e)
            /\ Cardinality(Range(e.before.current_numbers) \cup {e.card.value}) = 7) =>
               LET seven == SumSeq(e.before.current_numbers) + e.card.value
                   score == (IF e.before.x2 THEN 2 * seven ELSE seven)
                                + e.before.flat_modifiers + 15
               IN  /\ e.result = "flip7"
                   /\ BanksInto(e.before, e.after, score)
                   /\ gs.player_totals = e.after.player_totals
                   /\ EmptyLine(gs)
                   /\ last.res.round_end
                   /\ gs.current_player = (last.pre.current_player + 1) % NumPlayers

C6_Witness ==
    /\ last.res.result = "flip7"
    /\ last.pre.x2
    /\ last.pre.flat_modifiers > 0
    /\ gs.player_totals[last.pre.current_player]
           = last.pre.player_totals[last.pre.current_player] + 65

\* the cards the last call took from the deck
Drawn == Len(last.pre.deck) - Len(gs.deck)

IsFlipThree(c) == c.kind = "action" /\ c.name = "FlipThree"

FlipThreesProcessed == Cardinality({i \in 1..Len(last.log) : IsFlipThree(last.log[i].card)})

HitDrewFlipThree ==
    /\ Returned
    /\ last.action = "hit"
    /\ IsFlipThree(last.res.card)

\* C7 as claimed: a hit whose drawn card is FlipThree takes at most 3 further
\* cards from the deck, 4 in all, also when a FlipThree is among the forced draws.
C7_AtMostFourCards ==
    HitDrewFlipThree => Drawn <= 4

\* C7 as amended: every FlipThree card forces at most 3 draws of its own, so a hit
\* whose drawn card is FlipThree takes at most 1 + 3k cards, k the number of
\* FlipThree cards the call processed: 4 when no FlipThree is among the forced draws.
C7_ThreeForcedDrawsPerFlipThree ==
    HitDrewFlipThree =>
        /\ Len(last.res.draws) <= 3
        /\ Drawn <= 1 + 3 * FlipThreesProcessed
        /\ FlipThreesProcessed = 1 => Drawn <= 4

C7_Witness ==
    /\ HitDrewFlipThree
    /\ FlipThreesProcessed = 2
    /\ Drawn = 5

\* a processed card that ended the round
EndsRound(e) == e.result \in {"bust", "flip7", "freeze"}

\* C8: in a hit that resolves a FlipThree no card is drawn once a forced draw has
\* ended the round, at any depth: the card that ended the round is the last card
\* drawn, the call returns flipthree_resolved with the round ended, and the cards
\* behind it are still in the deck, in order.
C8_NoDrawAfterRoundEnd ==
    HitDrewFlipThree =>
        /\ \A i \in 1..Len(last.log) :
               /\ ~last.log[i].before.round_over
               /\ EndsRound(last.log[i]) =>
                      /\ i = Len(last.log)
                      /\ last.res.result = "flipthree_resolved"
                      /\ last.res.round_end
                      /\ gs.current_player = (last.pre.current_player + 1) % NumPlayers
        /\ gs.deck = SubSeq(last.pre.deck, Len(last.log) + 1, Len(last.pre.deck))
        /\ last.res.result = "flipthree_resolved" => EndsRound(last.log[Len(last.log)])

C8_Witness ==
    /\ HitDrewFlipThree
    /\ last.res.result = "flipthree_resolved"
    /\ FlipThreesProcessed = 2
    /\ Len(last.log) = 3
    /\ Len(gs.deck) = 2

\* C9: every draw takes the front card and leaves one card fewer: the cards a call
\* processed are the front of the deck it found, in order, and the rest is the deck
\* it leaves.  A hit on an empty deck in a game without a winner raises the
\* empty-deck error and leaves totals, player, line, round-over flag and winner alone.
C9_DrawTakesFrontCard ==
    /\ Returned =>
           /\ \A i \in 1..Len(last.log) :
                  /\ last.log[i].card = last.pre.deck[i]
                  /\ remaining(last.log[i].before.deck) = remaining(last.pre.deck) - i
           /\ gs.deck = SubSeq(last.pre.deck, Len(last.log) + 1, Len(last.pre.deck))
           /\ last.action = "hit" => Len(last.log) >= 1
    /\ (last.action = "hit" /\ last.pre.winner = None /\ last.pre.deck = <<>>) =>
           /\ last.err = "IndexError"
           /\ gs = last.pre
    /\ last.err = "IndexError" => last.pre.deck = <<>>

C9_Witness ==
    /\ last.err = "IndexError"
    /\ last.pre.current_numbers # <<>>
    /\ last.pre.flat_modifiers > 0

\* a reference held by the search: a node's state, or the state of the rollout
SearchRefs ==
    {nodes[n].state : n \in 1..Len(nodes)}
        \cup (IF frame.pc \in {"rollout", "backup"} THEN {frame.st} ELSE {})

\* C10: MCTSAgent.run never changes the GameState it is given: all through the
\* call and after it returns, for any budget, the caller's totals, player, line,
\* winner and deck (contents and order) are what they were when run was called,
\* and every node and every rollout holds a clone, never the caller's object.
C10_RunLeavesCallerStateAlone ==
    /\ gs = root_state0
    /\ 0 \notin SearchRefs

C10_Witness ==
    /\ frame.pc = "done"
    /\ frame.sims = MaxSims
    /\ frame.best_act = "hit"
    /\ nodes[1].visits = MaxSims
    /\ nodes[1].value > 0
    /\ Load(Mem, nodes[1].state).deck # gs.deck
    /\ gs = root_state0

\* run was called on a state that is not terminal
RootNotTerminal == root_state0.winner = None /\ ~root_state0.round_over

\* C11: run with a budget of zero simulations on a state that is not terminal
\* returns a defined result: one of the legal actions, never a missing value.
C11_ZeroBudgetReturnsAction ==
    (frame.pc = "done" /\ frame.sims = 0 /\ RootNotTerminal)
        => InSeq(frame.best_act, legal_actions(root_state0))

NodeIds == 1..Len(nodes)

Children(n) == {nodes[n].children[k] : k \in 1..Len(nodes[n].children)}

\* C12: a child without visits is selected before any visited sibling is visited
\* again: in every tree state of the search, the descent of a freshly expanded
\* node into a random child included, no node has a child with two or more
\* visits while another of its children has none.
C12_UnvisitedChildFirst ==
    \A n \in NodeIds : \A a \in Children(n), b \in Children(n) :
        ~(nodes[a].visits >= 2 /\ nodes[b].visits = 0)

\* an expanded node below the root: the child it stepped into got a second visit
\* only after its sibling had got its first
C12_Witness ==
    \E n \in NodeIds \ {1} : \E a \in Children(n), b \in Children(n) :
        /\ nodes[a].visits >= 2
        /\ nodes[b].visits = 1
        /\ C12_UnvisitedChildFirst

InRollout == frame.pc \in {"rollout", "backup", "raised"}

\* C13: a rollout applies random legal actions until the round ends or the deck
\* is exhausted: once the round of the player it started with has ended, by a
\* stay, a bust, a flip7, a freeze or a FlipThree that ended it, the rollout
\* applies no further action, so it never plays another player's turn.
C13_RolloutStopsAtRoundEnd == InRollout => ~frame.round.acted_after_end

RootChildren == nodes[1].children

\* mean value of node a <= mean value of node b, both visited
MeanLeq(a, b) == nodes[a].value * nodes[b].visits <= nodes[b].value * nodes[a].visits

\* C14: on a state that is not terminal and with a budget of at least one, run
\* returns the action of the root child with the highest mean value among the
\* root's children with visits; a child without visits is never returned when
\* a visited sibling exists, and on equal means the first child in iteration
\* order (hit before stay) is returned.
C14_ReturnsBestVisitedChild ==
    (frame.pc = "done" /\ frame.sims >= 1 /\ RootNotTerminal) =>
        \E k \in 1..Len(RootChildren) :
            LET c == RootChildren[k]
            IN  /\ nodes[c].visits > 0
                /\ frame.best_act = nodes[c].action
                /\ \A j \in 1..Len(RootChildren) :
                       LET d == RootChildren[j]
                       IN  nodes[d].visits > 0 =>
                               /\ MeanLeq(d, c)
                               /\ j < k => ~MeanLeq(c, d)

\* both actions were tried and have the same mean, not zero: hit is returned
C14_Witness ==
    /\ frame.pc = "done"
    /\ Len(RootChildren) = 2
    /\ nodes[RootChildren[1]].action = "hit"
    /\ nodes[RootChildren[2]].value > 0
    /\ MeanLeq(RootChildren[1], RootChildren[2])
    /\ MeanLeq(RootChildren[2], RootChildren[1])
    /\ frame.best_act = "hit"

\* the state the rollout plays on
RolloutState == Load(Mem, frame.st)

\* the rollout's last action drew a FlipThree whose forced draws stopped short
\* of ForcedDraws without ending the round
ForcedDrawsCutShort ==
    /\ frame.pc \in {"rollout", "backup"}
    /\ frame.res.result = "flipthree_done"
    /\ Len(frame.res.draws) < ForcedDraws

\* C15: an empty deck inside a forced-draw sequence or a rollout is a silent
\* stop, never an error: a FlipThree stops forcing draws when the deck is empty,
\* and the rollout and run never draw from an empty deck and never raise the
\* empty-deck error, whatever the state and the size of the deck run is given.
C15_EmptyDeckStopsSilently ==
    /\ frame.pc # "raised"
    /\ ForcedDrawsCutShort => RolloutState.deck = <<>>
    /\ (frame.pc = "rollout" /\ ~RolloutOver(RolloutState)) => RolloutState.deck # <<>>

\* a FlipThree drawn in a rollout with one card behind it: one forced draw, the
\* deck is used up, and the rollout stops and hands back its reward
C15_Witness ==
    /\ ForcedDrawsCutShort
    /\ Len(frame.res.draws) = 1
    /\ RolloutState.deck = <<>>
    /\ frame.pc = "backup"

\* C16: in every state with no winner that the driver can observe between two
\* calls of apply_action, legal_actions() is exactly [hit, stay], whatever the
\* state of the round and however many cards are left; it is empty only when a
\* winner is set; round_over is false in every such state.
C16_HitAndStayUntilWinner ==
    /\ ~gs.round_over
    /\ gs.winner = None => legal_actions(gs) = <<"hit", "stay">>
    /\ legal_actions(gs) = <<>> <=> gs.winner # None

\* a bust on the last card of the deck: the next player is offered hit and stay
C16_Witness ==
    /\ Returned
    /\ last.res.result = "bust"
    /\ gs.deck = <<>>
    /\ gs.winner = None
    /\ legal_actions(gs) = <<"hit", "stay">>

\* the outcomes that end the round, and those that leave it in progress
RoundEnding == {"stayed", "bust", "flip7", "freeze", "flipthree_resolved"}

RoundContinuing ==
    {"number_added", "modifier_added", "x2_added", "secondchance_added",
     "duplicate_discarded", "flipthree_done"}

NextPlayer(p) == (p + 1) % NumPlayers

\* C17: a call of apply_action that succeeds moves the current player on by
\* exactly one, cyclically, with the round state reset to empty, if and only if
\* its outcome ends the round (stayed, bust, flip7, freeze, flipthree_resolved),
\* once only even when forced draws nest; for every other outcome the current
\* player is unchanged.
C17_AdvanceIffRoundEnds ==
    Returned =>
        /\ last.res.result \in RoundEnding \cup RoundContinuing
        /\ last.res.result \in RoundEnding =>
               /\ gs.current_player = NextPlayer(last.pre.current_player)
               /\ EmptyLine(gs)
        /\ last.res.result \in RoundContinuing =>
               gs.current_player = last.pre.current_player

\* a FlipThree whose forced draws hold a second FlipThree, the round ended by a
\* card of the inner one: the turn passed once
C17_Witness ==
    /\ Returned
    /\ last.res.result = "flipthree_resolved"
    /\ FlipThreesProcessed >= 2
    /\ Drawn >= 4
    /\ gs.current_player = NextPlayer(last.pre.current_player)
    /\ EmptyLine(gs)

\* what the rollout's starting player gained in the round in progress when the
\* rollout started, with flip7_weight if a flip7 occurred in that round
FirstRoundReward ==
    frame.round.total - frame.start_score
        + (IF frame.round.flip7 THEN Flip7Weight ELSE 0)

\* C18: the reward of a rollout started with current player p is the net score p
\* gains in the round in progress at the start (p's total when that round ends
\* minus p's total at the start), plus flip7_weight exactly when a flip7 occurred
\* in that round; points banked in a later round and another player's flip7
\* contribute nothing.
C18_RewardIsFirstRoundGain ==
    frame.pc = "backup" => rollout_reward(RolloutState, frame) = FirstRoundReward

\* node m lies in the subtree of node n
RECURSIVE InSubtree(_, _)
InSubtree(m, n) == m = n \/ (nodes[m].parent # 0 /\ InSubtree(nodes[m].parent, n))

\* the completed iterations whose rolled-out node lies in the subtree of n
IterationsBelow(n) ==
    {k \in 1..Len(frame.iterations) : InSubtree(frame.iterations[k].node, n)}

RECURSIVE SumRewards(_)
SumRewards(K) ==
    IF K = {}
    THEN 0
    ELSE LET k == CHOOSE k \in K : TRUE
         IN  frame.iterations[k].reward + SumRewards(K \ {k})

RECURSIVE SumVisits(_)
SumVisits(children) ==
    IF children = <<>> THEN 0 ELSE nodes[Head(children)].visits + SumVisits(Tail(children))

\* C19: backpropagation updates exactly the nodes on the path from the rolled-out
\* node to the root: after k completed iterations every node's visit count is the
\* number of iterations whose rolled-out node lies in its subtree and its value
\* the sum of their rewards; root.visits = k; a root that is not terminal has the
\* visits of its children, summed; every other node with children has one visit
\* more than its children together; and no visited child has a parent without
\* visits, so UCB1 never takes the logarithm of 0.
C19_BackupUpdatesPathToRoot ==
    /\ Len(frame.iterations) = frame.i
    /\ \A n \in NodeIds :
           /\ nodes[n].visits = Cardinality(IterationsBelow(n))
           /\ nodes[n].value = SumRewards(IterationsBelow(n))
           /\ (n # 1 /\ nodes[n].visits > 0) => nodes[nodes[n].parent].visits > 0
           /\ (n # 1 /\ nodes[n].children # <<>>) =>
                  nodes[n].visits = 1 + SumVisits(nodes[n].children)
    /\ nodes # <<>> =>
           /\ nodes[1].visits = frame.i
           /\ nodes[1].children # <<>> => nodes[1].visits = SumVisits(nodes[1].children)

\* TreeSims iterations done, some of them rolled out below an expanded child of
\* the root and brought a reward
C19_Witness ==
    /\ frame.pc = "done"
    /\ frame.i = TreeSims
    /\ \E n \in NodeIds \ {1} :
           /\ nodes[n].parent # 1
           /\ nodes[n].visits >= 1
           /\ nodes[n].value > 0
           /\ nodes[nodes[n].parent].visits = 1 + SumVisits(nodes[nodes[n].parent].children)
           /\ nodes[1].value > nodes[nodes[n].parent].value

\* no player can ever reach WinScore: the deck is used up and banking the line
\* on the table does not win, after which every line and the deck are empty
CannotBeWon(s) ==
    /\ s.winner = None
    /\ s.deck = <<>>
    /\ bank_current(s).winner = None

\* C20: a game driven by play_game with agents that only return actions offered
\* by legal_actions() runs to completion: every action the driver applies
\* succeeds, the loop never stops with the empty-deck error, and the game never
\* reaches a state from which no player can ever reach 200.
C20_GameRunsToCompletion ==
    /\ last.err = "None"
    /\ ~CannotBeWon(gs)

\* the game state node n holds
NodeState(n) == Load(Mem, nodes[n].state)

\* two states alike in everything but the order of the deck
SamePosition(s, t) ==
    /\ [s EXCEPT !.deck = <<>>] = [t EXCEPT !.deck = <<>>]
    /\ Len(s.deck) = Len(t.deck)
    /\ \A c \in Range(s.deck) \cup Range(t.deck) : Count(s.deck, c) = Count(t.deck, c)

\* C21: every node of the tree run builds holds a game state that equals the
\* root's determinized state in everything but the order of the deck: expand
\* clones the parent's state and shuffles the clone, and never plays the child's
\* action on it, so the hit child and the stay child of a node start their
\* rollouts from the same position.
C21_NodesHoldRootPosition ==
    \A n \in NodeIds :
        /\ SamePosition(NodeState(n), NodeState(1))
        /\ SamePosition(NodeState(n), root_state0)

\* a stay child below a child of the root, its deck in another order than the
\* root's, while a rollout is under way on a clone that has moved on
C21_Witness ==
    /\ frame.pc = "rollout"
    /\ \E n \in NodeIds :
           /\ nodes[n].parent > 1
           /\ nodes[n].action = "stay"
           /\ NodeState(n).deck # NodeState(1).deck
           /\ SamePosition(NodeState(n), NodeState(1))
           /\ ~SamePosition(RolloutState, NodeState(n))

====
